---- MODULE Spec2Model ----
(***************************************************************************)
(* Interactive Christmas tree: the frame loop of LuxuryTree and its        *)
(* children (progress smoothing, entity transitions, particle uniforms)    *)
(* and the card focus state of Polaroids.                                  *)
(*                                                                         *)
(* Numbers.  JavaScript numbers are modelled in fixed point: an integer n  *)
(* stands for n / Scale.  A frame delta is a whole number of sixtieths of  *)
(* a second, so `delta * k` is the fraction (n * k) / 60.                  *)
(*                                                                         *)
(* Two builds of components/ParticleTree.tsx are in the repository; the    *)
(* variable `build` says which one is running and never changes.           *)
(***************************************************************************)
EXTENDS Integers, Sequences, FiniteSets, TLC

\* ------------------------------------------------------------------ bounds
MaxFrames == 2
MaxStalls == 1
NumCards == 2
NumOrnaments == 1
NumGifts == 1
NumSeeds == 1
NumParticles == 2
ScatterFrames == 300
SettleFrames == 24

\* --------------------------------------------------------------- constants
\* the fixed-point unit, and the unit of a frame delta (sixtieths of a second)
Scale == 10 ^ 4
\* progressRef.current and the uProgress uniforms are kept ten times finer, so
\* that three hundred frames of rounding stay below 1e-4
ProgressUnit == 2 * 5
ProgressScale == Scale * ProgressUnit
DeltaDen == 6 * 10
\* the deltas of a slow frame (just over 0.2 s) and of a frame after a stall (0.5 s)
SlowDelta == DeltaDen \div 5 + 1
StallDelta == DeltaDen \div 2

\* entities are numbered from 0, as the array indices of the source
Cards == 0..(NumCards - 1)
Ornaments == 0..(NumOrnaments - 1)
Gifts == 0..(NumGifts - 1)
Particles == 0..(NumParticles - 1)
Seeds == 1..NumSeeds
\* focusedIndex = null
NoFocus == 0 - 1

\* angles are in milliradians
Pi == 3142
HalfPi == Pi \div 2
TwoPi == 6283
GOLDEN_ANGLE == 2400
TREE_HEIGHT == 70000
TREE_WIDTH == 35000
Builds == {"components", "unnamed"}

\* the frame deltas the loop is driven with, in sixtieths of a second:
\* a repeated timestamp, a slow frame, a frame after a stall
Deltas == {0, SlowDelta, StallDelta}

VARIABLES
  build,          \* which build of ParticleTree.tsx is running
  storeHandOpen,  \* useTreeStore state: isHandOpen as the gesture collaborator last set it
  isHandOpen,     \* the value of isHandOpen in the committed render of LuxuryTree and Polaroids
  focusedIndex,   \* Polaroids' useState value; NoFocus stands for null
  isFocusedOf,    \* the focusedIndex the committed render of the cards was made from
  effectPending,  \* the [isHandOpen] effect of Polaroids is scheduled and has not run
  clicked,        \* the card whose onClick ran in the last step, NoFocus after any other step
  progress,       \* progressRef.current
  consumed,       \* the progressRef.current the children's callbacks read in the last frame
  elapsed,        \* state.clock.elapsedTime, in sixtieths of a second
  lastDelta,      \* the delta of the last frame, in sixtieths of a second
  lastTracking,   \* the isTracking GestureController's callback saw in the last frame
  groupRotY,      \* rotatingGroupRef.current.rotation.y
  foliageData,    \* Foliage: the attribute buffers aTargetPos, aChaosPos, aRandom (useMemo)
  foliage,        \* Foliage: the uniforms uTime, uProgress and uSize
  ornData,        \* OrnamentLayer: data (useMemo)
  ornaments,      \* OrnamentInstance: currentPos and the instance's transform
  giftData,       \* GiftPile: gifts (useMemo)
  gifts,          \* ScatteringGiftBox / GiftBox: pos and the group's transform
  giftPile,       \* GiftPile's own group ("components" build): scale and rotation.y
  cardData,       \* Polaroids: data (useMemo)
  cards,          \* SinglePolaroid: currentPos and the group's transform
  camera,         \* state.camera: position and the point it looks at
  frames,         \* frames run so far
  stalls,         \* frames with a stall delta so far
  storeTracking,  \* useTreeStore state: isTracking as the gesture collaborator last set it
  isTracking,     \* the value of isTracking in the committed render of App and GestureController
  storeHand,      \* useTreeStore state: <<handX, handY, handZ>>
  hand,           \* <<handX, handY, handZ>> in the committed render of GestureController
  gcCurrentPos,   \* GestureController: currentPos.current
  gcTargetPos,    \* GestureController: targetPos.current
  font,           \* the font request of useLoader: "pending" or "loaded"
  mounted,        \* the Suspense boundary around LuxuryTree has committed its children
  texts,          \* ParticleText: geometry, uniforms and meshRef of each mounted instance
  treeSample,     \* Foliage.useMemo: the loop index and the radius getTreePos computed for it
  chaosSample     \* getChaosPos as Foliage calls it: the three random draws and the result

reactVars == <<storeHandOpen, isHandOpen, focusedIndex, isFocusedOf, effectPending, clicked>>
dataVars == <<build, foliageData, ornData, giftData, cardData>>
animVars == <<progress, consumed, elapsed, lastDelta, lastTracking, groupRotY, foliage,
              ornaments, gifts, giftPile, cards, frames, stalls>>
gestureVars == <<storeTracking, isTracking, storeHand, hand, gcCurrentPos, gcTargetPos>>
loadVars == <<font, mounted, texts>>
sampleVars == <<treeSample, chaosSample>>
vars == <<reactVars, dataVars, animVars, camera, gestureVars, loadVars, sampleVars>>

\* ----------------------------------------------------------- fixed point
\* n / d rounded to the nearest integer (d > 0)
Round(n, d) == (n + d \div 2) \div d

\* n / d rounded up (d > 0)
DivUp(n, d) == (n + d - 1) \div d

\* the product of two fixed-point numbers, |a| at most 20
Mul(a, b) == a * (b \div Scale) + Round(a * (b % Scale), Scale)

\* THREE.MathUtils.lerp(x, y, t) with t = tNum / tDen; t is not clamped
lerp(x, y, tNum, tDen) == x + Round((y - x) * tNum, tDen)

\* Vector3.lerp(v, alpha): each component moves by alpha of its distance to v
VLerp(a, v, tNum, tDen) ==
  <<lerp(a[1], v[1], tNum, tDen), lerp(a[2], v[2], tNum, tDen), lerp(a[3], v[3], tNum, tDen)>>

VAdd(a, b) == <<a[1] + b[1], a[2] + b[2], a[3] + b[3]>>
VSub(a, b) == <<a[1] - b[1], a[2] - b[2], a[3] - b[3]>>

RECURSIVE SqrtIter(_, _, _)
SqrtIter(n, lo, hi) ==
  IF lo >= hi THEN lo
  ELSE LET mid == (lo + hi + 1) \div 2
       IN  IF mid * mid <= n THEN SqrtIter(n, mid, hi) ELSE SqrtIter(n, lo, mid - 1)

\* the integer part of the square root of n (0 <= n < 2^31)
ISqrt(n) == SqrtIter(n, 0, 46340)

RECURSIVE CbrtIter(_, _, _)
CbrtIter(n, lo, hi) ==
  IF lo >= hi THEN lo
  ELSE LET mid == (lo + hi + 1) \div 2
       IN  IF mid * mid * mid <= n THEN CbrtIter(n, mid, hi) ELSE CbrtIter(n, lo, mid - 1)

\* the integer part of the cube root of n (0 <= n < 2^31)
ICbrt(n) == CbrtIter(n, 0, 1290)

\* Math.sqrt of a fixed-point number in [0, 20]
Sqrt(x) == ISqrt(x * Scale)

\* Math.cbrt of a fixed-point number in [0, 1], to three decimals
Cbrt(x) == 10 * ICbrt(x * 100000)

\* Math.sin on [0, pi]: Bhaskara's rational approximation, never above 1
SinHalf(x) ==
  LET q == x * (Pi - x)
  IN  (80 * q) \div DivUp(5 * Pi * Pi - 4 * q, 2000)

\* Math.sin and Math.cos of an angle in milliradians
Sin(a) ==
  LET m == a % TwoPi
  IN  IF m <= Pi THEN SinHalf(m) ELSE 0 - SinHalf(m - Pi)

Cos(a) == Sin(a + HalfPi)

\* Vector3.normalize, computed on thousandths to stay within the integers
Normalize(v) ==
  LET a == <<v[1] \div 10, v[2] \div 10, v[3] \div 10>>
      len == ISqrt(a[1] * a[1] + a[2] * a[2] + a[3] * a[3])
  IN  IF len = 0 THEN <<0, 0, 0>>
      ELSE <<Round(a[1] * Scale, len), Round(a[2] * Scale, len), Round(a[3] * Scale, len)>>

\* ------------------------------------------------------------ layout helpers
\* the values Math.random() returns, in call order from a seed
RandomTable == <<1234, 8071, 4500, 9999, 0, 6250, 2718, 5003, 7300, 150, 3333>>

random(seed, k) == RandomTable[((seed * 5 + k) % Len(RandomTable)) + 1]

\* getChaosPos: a direction uniform on the sphere (theta, phi = acos(2u - 1)) and
\* a radius of uniform volume density; minVol = minRatio^3 is 0 in the "unnamed"
\* build, whose getChaosPos has no minRatio parameter
getChaosPos(maxRadius, minVol, u1, u2, u3) ==
  LET theta == Round(u1 * TwoPi, Scale)
      cosPhi == 2 * u2 - Scale
      sinPhi == ISqrt(Scale * Scale - cosPhi * cosPhi)
      rRandom == Mul(u3, Scale - minVol) + minVol
      r == Mul(Cbrt(rRandom), maxRadius)
  IN  <<Mul(Cos(theta), Mul(sinPhi, r)), Mul(Sin(theta), Mul(sinPhi, r)), Mul(cosPhi, r)>>

\* getTreePos: const radius = width * (1 - t)
treeRadius_Inverted(t, width) == Mul(t, width)

treeRadius(t, width) == Mul(Scale - t, width)

getTreePos(t, theta, height, width) ==
  LET y == Mul(t, height) - height \div 2
      radius == treeRadius(t, width)
  IN  <<Mul(Cos(theta), radius), y, Mul(Sin(theta), radius)>>

\* t = 1 - Math.sqrt((i + 1) / (count + 1)), i counted from 0
coneT(i, count) == Scale - Sqrt(Round((i + 1) * Scale, count + 1))

\* ------------------------------------------------------ LuxuryTree.useFrame
lerpSpeedCloseOf(b) == IF b = "components" THEN 2 ELSE 10

lerpSpeed_TooFast(open, b) == IF open THEN 64 ELSE lerpSpeedCloseOf(b)

lerpSpeed_Slow(open, b) == IF open THEN 2 ELSE lerpSpeedCloseOf(b)

lerpSpeed_Frozen(open, b) == 0

lerpSpeed(open, b) == IF open THEN 4 ELSE lerpSpeedCloseOf(b)

\* const target = isHandOpen ? 1 : 0
LuxuryTreeFrame_RestsAbove(p, open, b, delta) ==
  LET target == IF open THEN ProgressScale ELSE ProgressScale \div 10
  IN  lerp(p, target, delta * lerpSpeed(open, b), DeltaDen)

LuxuryTreeFrame(p, open, b, delta) ==
  LET target == IF open THEN ProgressScale ELSE 0
  IN  lerp(p, target, delta * lerpSpeed(open, b), DeltaDen)


\* ------------------------------------------------------- entity construction
\* Foliage's call of getChaosPos: getChaosPos(125, 0.5) in the "components"
\* build, getChaosPos(125) in the "unnamed" one
FoliageChaos(b, u1, u2, u3) ==
  IF b = "components" THEN getChaosPos(1250000, 1250, u1, u2, u3)
  ELSE getChaosPos(1250000, 0, u1, u2, u3)

\* Foliage: the attributes of particle i; the jitter is (random - 0.5) * 0.05
FoliageData(i, b, seed) ==
  LET tPos == getTreePos(coneT(i, NumParticles), i * GOLDEN_ANGLE, TREE_HEIGHT, TREE_WIDTH)
      noise(k) == Round((random(seed, 7 * i + k) - Scale \div 2) * 5, 100)
  IN  [ aTargetPos |-> VAdd(tPos, <<noise(5), noise(6), noise(7)>>),
        aChaosPos |-> FoliageChaos(b, random(seed, 7 * i + 8), random(seed, 7 * i + 9),
                                   random(seed, 7 * i + 10)),
        aRandom |-> random(seed, 7 * i + 11) ]

\* OrnamentLayer: data[i] (the first layer, scaleBase = 0.15)
OrnamentData(i, b, seed) ==
  [ target |-> getTreePos(coneT(i, NumOrnaments), i * GOLDEN_ANGLE * 13, TREE_HEIGHT,
                          Round(TREE_WIDTH * 9, 10)),
    chaos |-> IF b = "components"
              THEN getChaosPos(200000, 270, random(seed, 4 * i), random(seed, 4 * i + 1),
                               random(seed, 4 * i + 2))
              ELSE getChaosPos(180000, 0, random(seed, 4 * i), random(seed, 4 * i + 1),
                               random(seed, 4 * i + 2)),
    scale |-> Round(random(seed, 4 * i + 3), 2) + 5000,
    scaleBase |-> 1500 ]

\* GiftPile: gifts[i]; the "components" build has no chaos and no chaosRot
GiftData(i, b, seed) ==
  LET angle == Round(random(seed, 9 * i + 1) * TwoPi, Scale)
      r == Round(random(seed, 9 * i + 2) * 22, 10) + 12000
      y == 0 - TREE_HEIGHT \div 2 + Round(random(seed, 9 * i + 3) * 8, 10) - 2000
      target == <<Mul(Cos(angle), r), y, Mul(Sin(angle), r)>>
  IN  [ target |-> target,
        chaos |-> IF b = "components" THEN target
                  ELSE getChaosPos(150000, 0, random(seed, 9 * i + 4), random(seed, 9 * i + 5),
                                   random(seed, 9 * i + 6)),
        scale |-> Round(random(seed, 9 * i + 7) * 4, 10) + 3000,
        rot |-> <<0, Round(random(seed, 9 * i + 8) * 2 * Pi, 1000), 0>>,
        chaosRot |-> IF b = "components"
                     THEN <<0, Round(random(seed, 9 * i + 8) * 2 * Pi, 1000), 0>>
                     ELSE <<Round(random(seed, 9 * i + 9) * Pi, 1000),
                            Round(random(seed, 9 * i + 10) * Pi, 1000),
                            Round(random(seed, 9 * i + 11) * Pi, 1000)>> ]

\* Polaroids: data[i]
CardData(i, count, b, seed) ==
  [ target |-> getTreePos(coneT(i, count), i * GOLDEN_ANGLE, TREE_HEIGHT,
                          Round(TREE_WIDTH * 11, 10)),
    chaos |-> IF b = "components"
              THEN getChaosPos(120000, 0, random(seed, 3 * i + 2), random(seed, 3 * i + 3),
                               random(seed, 3 * i + 4))
              ELSE getChaosPos(150000, 0, random(seed, 3 * i + 2), random(seed, 3 * i + 3),
                               random(seed, 3 * i + 4)) ]

\* ------------------------------------------------------ per-frame callbacks
\* progress > 0.5
Scattered_Inclusive(p) == 2 * p >= ProgressScale

Scattered(p) == 2 * p > ProgressScale

FullyScattered(p) == 10 * p > 8 * ProgressScale

\* Foliage.useFrame: the two uniforms it writes; uSize is left as created
FoliageFrame_Pulses(f, p, time) ==
  [ uTime |-> time, uProgress |-> lerp(f.uProgress, p, 1, 10),
    uSize |-> f.uSize + Round(p, 10 * ProgressUnit) ]

FoliageFrame_Overshoots(f, p, time) ==
  [ f EXCEPT !.uTime = time, !.uProgress = lerp(f.uProgress, p, 12, 10) ]

FoliageFrame(f, p, time) ==
  [ f EXCEPT !.uTime = time, !.uProgress = lerp(f.uProgress, p, 1, 10) ]

\* OrnamentInstance.useFrame
OrnamentFloat(d, p, time, b) ==
  IF b = "unnamed" /\ FullyScattered(p)
  THEN <<0, Round(Sin(time * 50 + d.chaos[1]), 100), Round(Cos(time * 50 + d.chaos[2]), 100)>>
  ELSE <<0, 0, 0>>

OrnamentSpin(p, delta, b) ==
  IF b = "unnamed" /\ FullyScattered(p)
  THEN <<Round(delta * Scale * 6, 600), Round(delta * Scale * 45, 6000)>>
  ELSE <<Round(delta * Scale, DeltaDen), Round(delta * Scale, DeltaDen)>>

\* position.copy(currentPos.current) copies the components: the float added to
\* the instance's position afterwards does not reach currentPos
OrnamentInstanceFrame_FloatAccumulates(o, d, p, delta, time, b) ==
  LET dest == IF Scattered(p) THEN d.chaos ELSE d.target
      cur == VAdd(VLerp(o.currentPos, dest, delta * 3, DeltaDen), OrnamentFloat(d, p, time, b))
      spin == OrnamentSpin(p, delta, b)
  IN  [ currentPos |-> cur,
        position |-> cur,
        scale |-> Mul(Mul(d.scaleBase, d.scale), Scale - Round(p * 3, 10 * ProgressUnit)),
        rotation |-> <<o.rotation[1] + spin[1], o.rotation[2] + spin[2]>> ]

OrnamentInstanceFrame(o, d, p, delta, time, b) ==
  LET dest == IF Scattered(p) THEN d.chaos ELSE d.target
      cur == VLerp(o.currentPos, dest, delta * 3, DeltaDen)
      spin == OrnamentSpin(p, delta, b)
  IN  [ currentPos |-> cur,
        position |-> VAdd(cur, OrnamentFloat(d, p, time, b)),
        scale |-> Mul(Mul(d.scaleBase, d.scale), Scale - Round(p * 3, 10 * ProgressUnit)),
        rotation |-> <<o.rotation[1] + spin[1], o.rotation[2] + spin[2]>> ]

\* ScatteringGiftBox.useFrame ("unnamed" build)
GiftFloat(d, p, time) ==
  IF FullyScattered(p)
  THEN <<Round(Cos(time * 25 + d.chaos[3]), 200), Round(Sin(time * 40 + d.chaos[1]), 200), 0>>
  ELSE <<0, 0, 0>>

GiftRotation_AlwaysSpins(g, d, p, delta, time) ==
  <<g.rotation[1] + Round(3 * Sin(time * 15 + Round(d.chaos[2], 10)), 200),
    g.rotation[2] + Round(3 * Cos(time * 10 + Round(d.chaos[1], 10)), 200),
    g.rotation[3]>>

GiftRotation(g, d, p, delta, time) ==
  IF FullyScattered(p)
  THEN <<g.rotation[1] + Round(3 * Sin(time * 15 + Round(d.chaos[2], 10)), 200),
         g.rotation[2] + Round(3 * Cos(time * 10 + Round(d.chaos[1], 10)), 200),
         g.rotation[3]>>
  ELSE LET targetRot == IF Scattered(p) THEN d.chaosRot ELSE d.rot
       IN  VLerp(g.rotation, targetRot, delta * 2, DeltaDen)

ScatteringGiftBoxFrame(g, d, p, delta, time) ==
  LET dest == IF Scattered(p) THEN d.chaos ELSE d.target
      cur == VLerp(g.pos, dest, delta * 3, DeltaDen)
  IN  [ pos |-> cur,
        position |-> VAdd(cur, GiftFloat(d, p, time)),
        rotation |-> GiftRotation(g, d, p, delta, time),
        scale |-> Mul(d.scale, Scale + Round(p * 2, 10 * ProgressUnit)) ]

\* GiftPile.useFrame ("components" build): the pile's group, not the boxes
GiftPileFrame(g, p, delta) ==
  [ scale |-> Scale + Round(p, 2 * ProgressUnit),
    rotY |-> g.rotY + Round(delta * Scale * 5, 6000) ]

\* camera.getWorldDirection
CameraDirection(cam) == Normalize(VSub(cam.lookAt, cam.position))

\* the point 3.0 in front of the camera
FocusTarget(cam) ==
  LET dir == CameraDirection(cam)
  IN  VAdd(cam.position, <<Mul(dir[1], 30000), Mul(dir[2], 30000), Mul(dir[3], 30000)>>)

CardBaseScale(p, b) == IF b = "unnamed" /\ Scattered(p) THEN 30000 ELSE 10000

\* the factors of delta in SinglePolaroid's lerps, in tenths: delta * 5 when
\* focused, delta * 2 otherwise
CardLerpTenths_Slow(isFocused) == IF isFocused THEN 50 ELSE 2

CardLerpTenths(isFocused) == IF isFocused THEN 50 ELSE 20

\* both branches of SinglePolaroid.useFrame lerp the one currentPos ref
SinglePolaroidFrame_OwnStart(c, d, isFocused, p, delta, cam, b) ==
  LET tNum == delta * CardLerpTenths(isFocused)
      tDen == DeltaDen * 10
  IN  IF isFocused
      THEN LET cur == VLerp(d.target, FocusTarget(cam), tNum, tDen)
           IN  [ currentPos |-> cur, position |-> cur,
                 scale |-> lerp(c.scale, 25000, tNum, tDen) ]
      ELSE LET dest == IF Scattered(p) THEN d.chaos ELSE d.target
               cur == VLerp(c.currentPos, dest, tNum, tDen)
           IN  [ currentPos |-> cur, position |-> cur,
                 scale |-> lerp(c.scale, CardBaseScale(p, b), tNum, tDen) ]

\* SinglePolaroid.useFrame (position and scale; the orientation is not modelled)
SinglePolaroidFrame(c, d, isFocused, p, delta, cam, b) ==
  LET tNum == delta * CardLerpTenths(isFocused)
      tDen == DeltaDen * 10
  IN  IF isFocused
      THEN LET cur == VLerp(c.currentPos, FocusTarget(cam), tNum, tDen)
           IN  [ currentPos |-> cur, position |-> cur,
                 scale |-> lerp(c.scale, 25000, tNum, tDen) ]
      ELSE LET dest == IF Scattered(p) THEN d.chaos ELSE d.target
               cur == VLerp(c.currentPos, dest, tNum, tDen)
           IN  [ currentPos |-> cur, position |-> cur,
                 scale |-> lerp(c.scale, CardBaseScale(p, b), tNum, tDen) ]

\* ParticleText.useMemo: no geometry and no uniforms without the font
ParticleTextMemo_Inverted(fontLoaded) ==
  IF fontLoaded
  THEN [ geometry |-> FALSE, uniforms |-> [ present |-> FALSE, uTime |-> 0, uProgress |-> 0 ] ]
  ELSE [ geometry |-> TRUE, uniforms |-> [ present |-> TRUE, uTime |-> 0, uProgress |-> 0 ] ]

ParticleTextMemo(fontLoaded) ==
  IF ~fontLoaded
  THEN [ geometry |-> FALSE, uniforms |-> [ present |-> FALSE, uTime |-> 0, uProgress |-> 0 ] ]
  ELSE [ geometry |-> TRUE, uniforms |-> [ present |-> TRUE, uTime |-> 0, uProgress |-> 0 ] ]

\* ParticleText.useFrame: nothing without the mesh or the uniforms
ParticleTextFrame(t, p, time) ==
  IF t.meshRef /\ t.uniforms.present
  THEN [ t EXCEPT !.uniforms =
           [ present |-> TRUE, uTime |-> time, uProgress |-> lerp(t.uniforms.uProgress, p, 1, 10) ] ]
  ELSE t

\* ------------------------------------------------- GestureController.useFrame
\* THREE.MathUtils.clamp
clamp(x, lo, hi) == IF x < lo THEN lo ELSE IF x > hi THEN hi ELSE x

\* azimuth = (handX - 0.5) * 2.5, in milliradians
Azimuth(handX) == Round((handX - Scale \div 2) * 25, 100)

\* elevation = lerp(8, -2, handY)
Elevation(handY) == 80000 - 10 * handY

\* distance = mapLinear(clamp(handZ, 0.05, 0.35), 0.05, 0.35, 22, 6)
Distance(handZ) ==
  LET zInput == clamp(handZ, 500, 3500)
  IN  220000 - Round((zInput - 500) * 16, 3) * 10

\* targetPos.current.set(distance * sin(azimuth), elevation, distance * cos(azimuth))
GestureTarget(h) ==
  LET azimuth == Azimuth(h[1])
      distance == Distance(h[3])
  IN  <<Mul(Sin(azimuth), distance), Elevation(h[2]), Mul(Cos(azimuth), distance)>>

\* the callback: with a tracked hand the camera is damped towards the target and
\* re-aimed at (0, 3, 0); without one, currentPos follows the camera
GestureControllerFrame_WritesBack(cam, cur, tgt, tracking, h, delta) ==
  IF tracking
  THEN LET target == GestureTarget(h)
           pos == VLerp(cur, target, delta * 3, DeltaDen)
       IN  [ camera |-> [ position |-> pos, lookAt |-> <<0, 30000, 0>> ],
             currentPos |-> pos, targetPos |-> target ]
  ELSE [ camera |-> [ cam EXCEPT !.position = cur ], currentPos |-> cur, targetPos |-> tgt ]

GestureControllerFrame(cam, cur, tgt, tracking, h, delta) ==
  IF tracking
  THEN LET target == GestureTarget(h)
           pos == VLerp(cur, target, delta * 3, DeltaDen)
       IN  [ camera |-> [ position |-> pos, lookAt |-> <<0, 30000, 0>> ],
             currentPos |-> pos, targetPos |-> target ]
  ELSE [ camera |-> cam, currentPos |-> cam.position, targetPos |-> tgt ]

\* ------------------------------------------------------------ mounting
\* data.map((d, i) => <X key={i} ... />): one child per array index
RenderedKeys_Sliced(data) == { i \in DOMAIN data : i + 1 \in DOMAIN data }

RenderedKeys(data) == DOMAIN data

\* useRef(target.clone()) and the transform the element is created with
MountOrnament(d) ==
  [ currentPos |-> d.target, position |-> <<0, 0, 0>>, scale |-> Scale, rotation |-> <<0, 0>> ]

MountGift(d, b) ==
  [ pos |-> d.target,
    position |-> IF b = "components" THEN d.target ELSE <<0, 0, 0>>,
    rotation |-> d.rot, scale |-> d.scale ]

MountCard(d) ==
  [ currentPos |-> d.target, position |-> <<0, 0, 0>>, scale |-> Scale ]

\* React keeps the instance of every key that is rendered again, mounts the
\* new keys and unmounts the missing ones
Reconcile(old, keys, fresh) ==
  [ k \in keys |-> IF k \in DOMAIN old THEN old[k] ELSE fresh[k] ]

\* useRef(target.clone()): currentPos is a copy, so the lerp that moves it in
\* place leaves the target (and the chaos position, only ever read) as it was
DataAfterFrame_Aliased(d, newPos) == [ d EXCEPT !.target = newPos ]

DataAfterFrame(d, newPos) == d

\* camPos.clone().add(...): the focus update works on a copy of camera.position
CameraAfterFocus(cam) == cam

\* what the two ParticleText elements mount with
MountText(memo) ==
  [ geometry |-> memo.geometry, uniforms |-> memo.uniforms, meshRef |-> memo.geometry ]

\* ------------------------------------------------------------------- Init
\* the two ParticleText elements of LuxuryTree
Texts == 0..1

\* nothing is mounted under a suspended boundary
NoEntities == [ i \in {} |-> 0 ]

\* the useMemo data of the components under LuxuryTree
TreeData(b, seed, cardIds) ==
  [ foliageData |-> [ i \in Particles |-> FoliageData(i, b, seed) ],
    ornData |-> [ i \in Ornaments |-> OrnamentData(i, b, seed) ],
    giftData |-> [ i \in Gifts |-> GiftData(i, b, seed) ],
    cardData |-> [ i \in cardIds |-> CardData(i, Cardinality(cardIds), b, seed) ] ]

NoTree ==
  [ foliageData |-> NoEntities, ornData |-> NoEntities, giftData |-> NoEntities,
    cardData |-> NoEntities ]

\* the probes of the layout functions before any sample is taken
InitSamples ==
  /\ treeSample = [ index |-> 0 - 1, radius |-> 0 ]
  /\ chaosSample = [ draws |-> <<0, 0, 0>>, pos |-> <<0, 0, 0>>, taken |-> FALSE ]

\* progressRef starts at one of the values of `starts`; a tree that is mounted
\* from the start has the draws of the first seed, one that mounts later
\* (MountTree) those of any seed
InitTreeAt(open, cardIds, loaded, starts) ==
  /\ build \in Builds
  /\ storeHandOpen = open
  /\ isHandOpen = open
  /\ focusedIndex = NoFocus
  /\ isFocusedOf = NoFocus
  /\ effectPending = FALSE
  /\ clicked = NoFocus
  /\ progress \in starts
  /\ consumed = 0
  /\ elapsed = 0
  /\ lastDelta = 0
  /\ lastTracking = FALSE
  /\ groupRotY = 0
  /\ foliage = [ uTime |-> 0, uProgress |-> 0, uSize |-> 18000 ]
  /\ font = IF loaded THEN "loaded" ELSE "pending"
  /\ mounted = loaded
  /\ LET d == IF loaded THEN TreeData(build, 1, cardIds) ELSE NoTree
     IN  /\ foliageData = d.foliageData
         /\ ornData = d.ornData
         /\ giftData = d.giftData
         /\ cardData = d.cardData
  /\ ornaments = [ i \in DOMAIN ornData |-> MountOrnament(ornData[i]) ]
  /\ gifts = [ i \in DOMAIN giftData |-> MountGift(giftData[i], build) ]
  /\ giftPile = [ scale |-> Scale, rotY |-> 0 ]
  /\ cards = [ i \in DOMAIN cardData |-> MountCard(cardData[i]) ]
  /\ texts = IF loaded THEN [ k \in Texts |-> MountText(ParticleTextMemo(TRUE)) ]
             ELSE NoEntities
  /\ camera = [ position |-> <<0, 20000, 140000>>, lookAt |-> <<0, 0, 0>> ]
  /\ storeTracking = FALSE
  /\ isTracking = FALSE
  /\ storeHand = <<5000, 5000, 2000>>
  /\ hand = <<5000, 5000, 2000>>
  /\ gcCurrentPos = <<0, 20000, 140000>>
  /\ gcTargetPos = <<0, 20000, 140000>>
  /\ frames = 0
  /\ stalls = 0
  /\ InitSamples

\* useRef(0)
InitTree(open, cardIds, loaded) == InitTreeAt(open, cardIds, loaded, {0})

InitWith(open) == InitTree(open, Cards, TRUE)

\* the state after construction: the font is loaded, the hand is closed
Init == InitWith(FALSE)

\* ---------------------------------------------------------------- actions
\* the gesture collaborator writes isHandOpen into the store
SetHandOpen ==
  /\ storeHandOpen' = ~storeHandOpen
  /\ clicked' = NoFocus
  /\ UNCHANGED <<isHandOpen, focusedIndex, isFocusedOf, effectPending>>
  /\ UNCHANGED <<dataVars, animVars, camera, gestureVars, loadVars, sampleVars>>

\* the gesture collaborator writes isTracking into the store
SetTracking ==
  /\ storeTracking' = ~storeTracking
  /\ UNCHANGED <<isTracking, storeHand, hand, gcCurrentPos, gcTargetPos>>
  /\ UNCHANGED <<reactVars, dataVars, animVars, camera, loadVars, sampleVars>>

\* the gesture collaborator writes a hand sample into the store
SetHand(h) ==
  /\ h # storeHand
  /\ storeHand' = h
  /\ UNCHANGED <<storeTracking, isTracking, hand, gcCurrentPos, gcTargetPos>>
  /\ UNCHANGED <<reactVars, dataVars, animVars, camera, loadVars, sampleVars>>

\* React renders and commits the components that read the store (App,
\* GestureController, LuxuryTree, Polaroids) with the current store and state;
\* the [isHandOpen] effect is scheduled when its dependency changed
Render ==
  /\ ~effectPending
  /\ \/ isHandOpen # storeHandOpen
     \/ isFocusedOf # focusedIndex
     \/ isTracking # storeTracking
     \/ hand # storeHand
  /\ isHandOpen' = storeHandOpen
  /\ isFocusedOf' = focusedIndex
  /\ isTracking' = storeTracking
  /\ hand' = storeHand
  /\ effectPending' = (mounted /\ isHandOpen # storeHandOpen)
  /\ clicked' = NoFocus
  /\ ornaments' = Reconcile(ornaments, RenderedKeys(ornData),
                            [ i \in DOMAIN ornData |-> MountOrnament(ornData[i]) ])
  /\ gifts' = Reconcile(gifts, RenderedKeys(giftData),
                        [ i \in DOMAIN giftData |-> MountGift(giftData[i], build) ])
  /\ cards' = Reconcile(cards, RenderedKeys(cardData),
                        [ i \in DOMAIN cardData |-> MountCard(cardData[i]) ])
  /\ UNCHANGED <<storeHandOpen, focusedIndex, dataVars, camera>>
  /\ UNCHANGED <<progress, consumed, elapsed, lastDelta, lastTracking, groupRotY, foliage,
                 giftPile, frames, stalls>>
  /\ UNCHANGED <<storeTracking, storeHand, gcCurrentPos, gcTargetPos, loadVars, sampleVars>>

\* Polaroids: useEffect(() => { if (!isHandOpen) setFocusedIndex(null) }, [isHandOpen])
EffectResult_NoClear(open, cur) == cur

EffectResult_ClearsOnOpen(open, cur) == IF open THEN NoFocus ELSE cur

EffectResult(open, cur) == IF ~open THEN NoFocus ELSE cur

PolaroidsEffect ==
  /\ effectPending
  /\ effectPending' = FALSE
  /\ clicked' = NoFocus
  /\ focusedIndex' = EffectResult(isHandOpen, focusedIndex)
  /\ UNCHANGED <<storeHandOpen, isHandOpen, isFocusedOf>>
  /\ UNCHANGED <<dataVars, animVars, camera, gestureVars, loadVars, sampleVars>>

\* SinglePolaroid.onClick of card i, with the props of the committed render
onClickResult_KeepsOther(i, open, isFocused, cur) ==
  IF open THEN (IF isFocused \/ cur # NoFocus THEN cur ELSE i) ELSE cur

onClickResult_Ungated(i, open, isFocused, cur) ==
  IF isFocused THEN NoFocus ELSE i

onClickResult_NoToggle(i, open, isFocused, cur) ==
  IF open THEN i ELSE cur

onClickResult(i, open, isFocused, cur) ==
  IF open THEN (IF isFocused THEN NoFocus ELSE i) ELSE cur

onClick(i) ==
  /\ i \in DOMAIN cards
  /\ focusedIndex' = onClickResult(i, isHandOpen, isFocusedOf = i, focusedIndex)
  /\ clicked' = i
  /\ UNCHANGED <<storeHandOpen, isHandOpen, isFocusedOf, effectPending>>
  /\ UNCHANGED <<dataVars, animVars, camera, gestureVars, loadVars, sampleVars>>

\* OrbitControls (enabled = !isTracking): a drag of the user moves the camera
\* around the controls' target, the origin
OrbitControlsChange(pos) ==
  /\ ~isTracking
  /\ camera.position # pos
  /\ camera' = [ position |-> pos, lookAt |-> <<0, 0, 0>> ]
  /\ UNCHANGED <<reactVars, dataVars, animVars, gestureVars, loadVars, sampleVars>>

\* useLoader: the font request resolves
FontLoaded ==
  /\ font = "pending"
  /\ font' = "loaded"
  /\ UNCHANGED <<mounted, texts>>
  /\ UNCHANGED <<reactVars, dataVars, animVars, camera, gestureVars, sampleVars>>

\* the Suspense boundary retries once the font is there: LuxuryTree and its
\* children render, their useMemo data is computed and they mount
MountTree ==
  /\ font = "loaded"
  /\ ~mounted
  /\ mounted' = TRUE
  /\ \E seed \in Seeds :
       LET d == TreeData(build, seed, Cards)
       IN  /\ foliageData' = d.foliageData
           /\ ornData' = d.ornData
           /\ giftData' = d.giftData
           /\ cardData' = d.cardData
  /\ ornaments' = [ i \in DOMAIN ornData' |-> MountOrnament(ornData'[i]) ]
  /\ gifts' = [ i \in DOMAIN giftData' |-> MountGift(giftData'[i], build) ]
  /\ cards' = [ i \in DOMAIN cardData' |-> MountCard(cardData'[i]) ]
  /\ texts' = [ k \in Texts |-> MountText(ParticleTextMemo(font = "loaded")) ]
  /\ isHandOpen' = storeHandOpen
  /\ isFocusedOf' = focusedIndex
  /\ effectPending' = TRUE
  /\ clicked' = NoFocus
  /\ UNCHANGED <<build, font, storeHandOpen, focusedIndex, camera, gestureVars, sampleVars>>
  /\ UNCHANGED <<progress, consumed, elapsed, lastDelta, lastTracking, groupRotY, foliage,
                 giftPile, frames, stalls>>

\* one rendered frame: the clock advances, then the subscribed callbacks run in
\* subscription order.  useFrame subscribes in a layout effect, and layout
\* effects run children first and siblings in order: GestureController runs
\* first, then every child of LuxuryTree, and LuxuryTree's own callback last,
\* so the children read progressRef.current as the previous frame left it.
\* Under a suspended boundary only GestureController is subscribed.
FrameStep(delta, maxFrames) ==
  /\ frames < maxFrames
  /\ delta = StallDelta => stalls < MaxStalls
  /\ frames' = frames + 1
  /\ stalls' = IF delta = StallDelta THEN stalls + 1 ELSE stalls
  /\ lastDelta' = delta
  /\ lastTracking' = isTracking
  /\ elapsed' = elapsed + delta
  /\ consumed' = progress
  /\ LET gc == GestureControllerFrame(camera, gcCurrentPos, gcTargetPos, isTracking, hand, delta)
     IN  /\ gcCurrentPos' = gc.currentPos
         /\ gcTargetPos' = gc.targetPos
         /\ cards' = [ i \in DOMAIN cards |->
                         SinglePolaroidFrame(cards[i], cardData[i], isFocusedOf = i, progress,
                                             delta, gc.camera, build) ]
         /\ camera' = IF isFocusedOf \in DOMAIN cards THEN CameraAfterFocus(gc.camera)
                      ELSE gc.camera
  /\ foliage' = IF mounted THEN FoliageFrame(foliage, progress, elapsed') ELSE foliage
  /\ texts' = [ k \in DOMAIN texts |-> ParticleTextFrame(texts[k], progress, elapsed') ]
  /\ ornaments' = [ i \in DOMAIN ornaments |->
                      OrnamentInstanceFrame(ornaments[i], ornData[i], progress, delta,
                                            elapsed', build) ]
  /\ gifts' = IF build = "components" THEN gifts
              ELSE [ i \in DOMAIN gifts |->
                       ScatteringGiftBoxFrame(gifts[i], giftData[i], progress, delta, elapsed') ]
  /\ giftPile' = IF mounted /\ build = "components" THEN GiftPileFrame(giftPile, progress, delta)
                 ELSE giftPile
  /\ ornData' = [ i \in DOMAIN ornData |-> DataAfterFrame(ornData[i], ornaments'[i].currentPos) ]
  /\ giftData' = IF build = "components" THEN giftData
                 ELSE [ i \in DOMAIN giftData |-> DataAfterFrame(giftData[i], gifts'[i].pos) ]
  /\ cardData' = [ i \in DOMAIN cardData |-> DataAfterFrame(cardData[i], cards'[i].currentPos) ]
  /\ progress' = IF mounted THEN LuxuryTreeFrame(progress, isHandOpen, build, delta)
                 ELSE progress
  /\ groupRotY' = IF mounted THEN groupRotY + Round(delta * Scale, 600) ELSE groupRotY
  /\ clicked' = NoFocus
  /\ UNCHANGED <<storeHandOpen, isHandOpen, focusedIndex, isFocusedOf, effectPending>>
  /\ UNCHANGED <<build, foliageData, storeTracking, isTracking, storeHand, hand>>
  /\ UNCHANGED <<font, mounted, sampleVars>>

Frame(delta) == FrameStep(delta, MaxFrames)

\* the tree with no hand tracked: the driver, the clicks and the frames (slow
\* ones and ones after a stall; SpecThreshold and SpecLoad have the frames that
\* repeat a timestamp)
Next ==
  \/ SetHandOpen
  \/ Render
  \/ PolaroidsEffect
  \/ \E i \in Cards : onClick(i)
  \/ \E delta \in Deltas \ {0} : Frame(delta)

Spec == Init /\ [][Next]_vars

\* the scatter scenario: the 48 cards of Polaroids, progress 0, the driver held
\* at 1 (the open hand has been rendered before the first frame), every frame
\* 1/60 s
ScatterCards == 0..47

InitScatter == InitTree(TRUE, ScatterCards, TRUE)

ScatterFrame == FrameStep(1, ScatterFrames)

SpecScatter == InitScatter /\ [][ScatterFrame]_vars

\* the gesture camera: hand samples inside and outside the documented ranges
\* ([0,1] for handX and handY, [0.05,0.35] for the handZ the mapper uses), the
\* tracking flag, the user's orbit drags and the frames
HandSamples ==
  { <<2500, 7500, 2000>>, <<5000, 5000, 100>>, <<15000, 0 - 5000, 6000>> }

OrbitPositions == { <<100000, 20000, 100000>> }

NextCamera ==
  \/ SetTracking
  \/ \E h \in HandSamples : SetHand(h)
  \/ Render
  \/ \E pos \in OrbitPositions : OrbitControlsChange(pos)
  \/ \E delta \in Deltas : Frame(delta)

SpecCamera == Init /\ [][NextCamera]_vars

\* the formation loop of Foliage.useMemo, index by index: t and the radius
\* getTreePos computes before the jitter is added
FoliageCount == 9000

TreeSampleNext ==
  /\ treeSample.index < FoliageCount - 1
  /\ treeSample' = [ index |-> treeSample.index + 1,
                     radius |-> treeRadius(coneT(treeSample.index + 1, FoliageCount),
                                           TREE_WIDTH) ]
  /\ UNCHANGED <<reactVars, dataVars, animVars, camera, gestureVars, loadVars, chaosSample>>

SpecTaper == Init /\ [][TreeSampleNext]_vars

\* Foliage's chaos position for three values of Math.random(), each in [0, 1)
DrawSamples == { 0, 500, 1234, 5000, 9999 }

ChaosSampleTake(u1, u2, u3) ==
  /\ chaosSample' = [ draws |-> <<u1, u2, u3>>, pos |-> FoliageChaos(build, u1, u2, u3),
                      taken |-> TRUE ]
  /\ UNCHANGED <<reactVars, dataVars, animVars, camera, gestureVars, loadVars, treeSample>>

NextChaos == \E u1, u2, u3 \in DrawSamples : ChaosSampleTake(u1, u2, u3)

SpecChaos == Init /\ [][NextChaos]_vars

\* loading: the font request is pending when the scene starts, so the Suspense
\* boundary shows its fallback and nothing under LuxuryTree is mounted
InitLoad == InitTree(FALSE, Cards, FALSE)

NextLoad ==
  \/ FontLoaded
  \/ MountTree
  \/ PolaroidsEffect
  \/ \E delta \in Deltas : Frame(delta)

SpecLoad == InitLoad /\ [][NextLoad]_vars

\* the destination threshold: frames that read progress values on both sides of
\* 0.5, 0.5 itself, and 0.88235, which one gather frame of the "components"
\* build turns into 0.5
ProgressSamples == { 0, 49999, 50000, 50001, 88235, ProgressScale }

InitThreshold == \E open \in BOOLEAN : InitTreeAt(open, Cards, TRUE, ProgressSamples)

NextThreshold == \E delta \in Deltas \ {StallDelta} : Frame(delta)

SpecThreshold == InitThreshold /\ [][NextThreshold]_vars

\* focusing with the hand held open: clicks, renders and frames short enough
\* for every lerp factor to stay below 1 (1/60 s and 0.1 s), from progress 0
\* (the hand has just opened) and from progress 1
FocusDeltas == { 1, DeltaDen \div 10 }

InitFocus == InitTreeAt(TRUE, Cards, TRUE, { 0, ProgressScale })

NextFocus ==
  \/ \E i \in Cards : onClick(i)
  \/ Render
  \/ \E delta \in FocusDeltas : Frame(delta)

SpecFocus == InitFocus /\ [][NextFocus]_vars

\* settling: the driver is held (open or closed) from the first frame on, the
\* frames are short enough for rate * delta to stay below 1 in both builds
\* (1/60 s and 0.05 s against rates up to 10), and the render loop keeps
\* running them
SettleDeltas == { 1, 3 }

InitSettle == \E open \in BOOLEAN : InitTreeAt(open, Cards, TRUE, { 0, ProgressScale })

\* every frame of a run has the delta of its first frame
SettleFrame ==
  \E delta \in SettleDeltas :
    /\ frames > 0 => delta = lastDelta
    /\ FrameStep(delta, SettleFrames)

SpecSettle == InitSettle /\ [][SettleFrame]_vars /\ WF_vars(SettleFrame)

\* the driver against the clicks: store changes, renders, effects and clicks
\* in every order, no frame in between
NextRace ==
  \/ SetHandOpen
  \/ Render
  \/ PolaroidsEffect
  \/ \E i \in Cards : onClick(i)

SpecRace == Init /\ [][NextRace]_vars

\* ------------------------------------------------------------------ claims
\* the cards the state, and the committed render, show as focused
FocusedCards == { i \in Cards : focusedIndex = i }
RenderedFocusedCards == { i \in Cards : isFocusedOf = i }

\* C1: after any sequence of frames, with any driver values and any delta >= 0
\* (a large one after a stall included), progress stays within [0, 1].
C1_ProgressInUnitRange == progress >= 0 /\ progress <= ProgressScale

\* C2: at most one card is focused in every state, and a click on card b while
\* card a is focused and the hand is open (driver active) leaves exactly b
\* focused.  "a is focused" and "the hand is open" are the props the click
\* handler was rendered with.
C2_FocusMutualExclusion ==
  /\ [](Cardinality(FocusedCards) <= 1 /\ Cardinality(RenderedFocusedCards) <= 1)
  /\ [][\A a, b \in Cards :
          (a # b /\ isHandOpen /\ isFocusedOf = a /\ onClick(b)) => FocusedCards' = {b}]_vars

C2_Witness ==
  \E a, b \in Cards :
    a # b /\ clicked = b /\ isHandOpen /\ isFocusedOf = a /\ FocusedCards = {b}

\* C3: when the driver goes from scatter to gather while a card is focused, the
\* effect clears the focus, and no card is focused in any later state in which
\* the driver is still gather: once the effect of a gather render has run, the
\* focus state is none for as long as the rendered driver stays gather.
C3_NoStaleFocusInGather ==
  (~isHandOpen /\ ~effectPending) => focusedIndex = NoFocus

\* the effect has just cleared a focus that the committed render still shows
C3_Witness ==
  ~isHandOpen /\ ~effectPending /\ isFocusedOf \in Cards /\ focusedIndex = NoFocus

\* C4: a click on any card while the driver is gather (the handler's isHandOpen
\* is false) is a no-op: the focus state is the same before and after.
C4_ClickGatedByDriver ==
  [][\A i \in Cards : (~isHandOpen /\ onClick(i)) =>
        (focusedIndex' = focusedIndex /\ isFocusedOf' = isFocusedOf)]_vars

C4_Witness == clicked \in Cards /\ ~isHandOpen /\ storeHandOpen /\ focusedIndex = NoFocus

\* C5: while the driver is active, a click on card i sets the focus to none if
\* card i is the focused card, and to i otherwise (the focus was none or another
\* card).
C5_ClickToggles ==
  [][\A i \in Cards : (isHandOpen /\ onClick(i)) =>
        focusedIndex' = (IF isFocusedOf = i THEN NoFocus ELSE i)]_vars

C5_Witness ==
  clicked \in Cards /\ isHandOpen /\ isFocusedOf = clicked /\ focusedIndex = NoFocus


\* C6: within each frame the progress update runs before every entity update
\* and uniform update that reads progress: the value the consumers read in a
\* frame is the value computed in that frame.
C6_ReadAfterWrite == frames > 0 => consumed = progress

\* the destination each entity selected in the frame that leaves the current state
OrnamentDest(i) == IF Scattered(progress) THEN ornData[i].chaos ELSE ornData[i].target
GiftDest(i) == IF Scattered(progress) THEN giftData[i].chaos ELSE giftData[i].target
CardDest(i) ==
  IF isFocusedOf = i THEN FocusTarget(camera)
  ELSE IF Scattered(progress) THEN cardData[i].chaos ELSE cardData[i].target

Between(a, x, b) == (a <= x /\ x <= b) \/ (b <= x /\ x <= a)
VBetween(a, x, b) ==
  Between(a[1], x[1], b[1]) /\ Between(a[2], x[2], b[2]) /\ Between(a[3], x[3], b[3])

IsFrame == frames' = frames + 1

\* C7: after a frame with any delta >= 0, however large, the new currentPosition
\* of every ornament, gift box and card (focused or not) lies between its
\* previous position and the selected destination: no overshoot.
C7_NoOvershoot ==
  [][IsFrame =>
       /\ \A i \in Ornaments :
            VBetween(ornaments[i].currentPos, ornaments'[i].currentPos, OrnamentDest(i))
       /\ \A i \in Gifts : VBetween(gifts[i].pos, gifts'[i].pos, GiftDest(i))
       /\ \A i \in Cards : VBetween(cards[i].currentPos, cards'[i].currentPos, CardDest(i))]_vars

\* C8: a frame with delta = 0 is a no-op for the transition engine: it leaves
\* every entity's currentPosition, rendered position, rotation and scale, and
\* the particle progress uniform, unchanged.  (Stated for the frames after the
\* first one, which places the entities from their construction transform.)
C8_ZeroDeltaNoOp ==
  [][(IsFrame /\ lastDelta' = 0 /\ frames > 0) =>
       /\ ornaments' = ornaments
       /\ gifts' = gifts
       /\ cards' = cards
       /\ foliage'.uProgress = foliage.uProgress]_vars

\* C9: from progress 0 with the driver held at 1, rate 4.0 and delta = 1/60,
\* progress never decreases on a frame and never exceeds 1.
C9_ScatterMonotone ==
  /\ [](progress <= ProgressScale)
  /\ [][progress' >= progress]_vars

C9_Witness == frames = 120 /\ isHandOpen /\ 100 * progress > 99 * ProgressScale

\* C10: the set of entities (count and ids of foliage particles, ornaments, gift
\* boxes and cards) is the same in every reachable state: no frame, driver
\* change or click creates, destroys or re-indexes an entity.
C10_EntityConservation ==
  /\ DOMAIN foliageData = Particles
  /\ DOMAIN ornData = Ornaments /\ DOMAIN ornaments = Ornaments
  /\ DOMAIN giftData = Gifts /\ DOMAIN gifts = Gifts
  /\ DOMAIN cardData = Cards /\ DOMAIN cards = Cards

\* a state after frames, a driver change and an accepted click
C10_Witness == frames = MaxFrames /\ isHandOpen /\ focusedIndex \in Cards /\ isFocusedOf \in Cards

\* C11: while isTracking is false (in the render the callback was made from),
\* the gesture camera mapper writes neither the camera position nor its look-at
\* point in any frame; its own currentPos follows the camera.
C11_MapperIdleWithoutTracking ==
  [][(IsFrame /\ ~isTracking) => (camera' = camera /\ gcCurrentPos' = camera.position)]_vars

\* a frame ran without tracking after the user had moved the camera
C11_Witness ==
  /\ frames > 0
  /\ ~isTracking
  /\ camera.position \in OrbitPositions
  /\ gcCurrentPos = camera.position

\* the hand sample with every field clamped to its documented range
ClampedHand(h) == <<clamp(h[1], 0, Scale), clamp(h[2], 0, Scale), clamp(h[3], 500, 3500)>>

\* C12: every gesture field outside its documented range is clamped before use:
\* the target the mapper computes in a frame equals the target computed from the
\* clamped sample.
C12_ClampedBeforeUse ==
  [][(IsFrame /\ isTracking) => gcTargetPos' = GestureTarget(ClampedHand(hand))]_vars

\* the squared distance of two points less than 20 apart
DistSq(a, b) ==
  (a[1] - b[1]) * (a[1] - b[1]) + (a[2] - b[2]) * (a[2] - b[2]) + (a[3] - b[3]) * (a[3] - b[3])

\* C13: 48 cards starting at their formation positions, none focused, the driver
\* held at 1: after 300 frames of 1/60 s every card's currentPos is within 0.05
\* of its chaos position.
C13_CardsReachChaos ==
  (frames >= 300 /\ DOMAIN cards = ScatterCards) =>
    \A i \in DOMAIN cards : DistSq(cards[i].currentPos, cardData[i].chaos) <= 500 * 500

\* after the 300 frames: 48 cards, none focused, every one away from where it started
C13_Witness ==
  /\ frames = 300
  /\ Cardinality(DOMAIN cards) = 48
  /\ isFocusedOf = NoFocus
  /\ \A i \in DOMAIN cards : cards[i].currentPos # cardData[i].target

\* C14: from progress 0 with the driver at 1, rate 4.0 and delta = 1/60, the
\* progress after 120 frames is within 1e-3 of 1 - e^(-8) = 0.999665 (ten times
\* the progress is compared with 999665, a millionth being a tenth of its unit).
C14_TwoSecondValue ==
  frames = 120 =>
    (10 * progress - 999665 <= 1000 /\ 999665 - 10 * progress <= 1000)

\* the 120th frame of the scatter run, progress still short of 1
C14_Witness == frames = 120 /\ isHandOpen /\ consumed < progress /\ progress < ProgressScale

\* two consecutive indices of the formation loop have been sampled
TaperStep == treeSample.index >= 0 /\ treeSample'.index = treeSample.index + 1

\* C15 as stated: for height 7, width 3.5 and N = 9000 the pre-jitter formation
\* radius is non-increasing as the index increases from 0 to N-1.
C15_RadiusNonIncreasing ==
  [][TaperStep => treeSample'.radius <= treeSample.radius]_vars

\* C15 amended: the radius is non-decreasing as the index increases (index 0 is
\* the entity nearest the apex, index N-1 the one nearest the base).
C15_RadiusNonDecreasing ==
  [][TaperStep => treeSample'.radius >= treeSample.radius]_vars

\* the loop has run to the last index, whose radius is close to the full width
C15_Witness == treeSample.index = FoliageCount - 1 /\ 10 * treeSample.radius > 9 * TREE_WIDTH

\* the distance of a point from the origin, in hundredths
Norm100(v) ==
  LET a == <<v[1] \div 100, v[2] \div 100, v[3] \div 100>>
  IN  ISqrt(a[1] * a[1] + a[2] * a[2] + a[3] * a[3])

\* C16: every foliage chaos position has a distance from the origin in
\* [62.5, 125], whatever the random draws (0.25 is allowed for the model's
\* approximation of sin and cos).
C16_ChaosShell ==
  chaosSample.taken =>
    (Norm100(chaosSample.pos) >= 6250 - 25 /\ Norm100(chaosSample.pos) <= 12500 + 25)

\* the scales the next frame would write with delta d
OrnamentScaleWritten(i, d) ==
  OrnamentInstanceFrame(ornaments[i], ornData[i], progress, d, elapsed + d, build).scale
GiftScaleWritten(i, d) ==
  IF build = "components" THEN gifts[i].scale
  ELSE ScatteringGiftBoxFrame(gifts[i], giftData[i], progress, d, elapsed + d).scale
CardScaleWritten(i, d) ==
  SinglePolaroidFrame(cards[i], cardData[i], isFocusedOf = i, progress, d, camera, build).scale

\* C17: the scale a frame writes for an ornament, a gift box or a card is a
\* function of the progress it reads and of the entity's base scale only: from
\* any reachable state, two frames that differ only in their delta write the
\* same scales.
C17_ScaleDependsOnProgressOnly ==
  \A d1, d2 \in Deltas :
    /\ \A i \in DOMAIN ornaments : OrnamentScaleWritten(i, d1) = OrnamentScaleWritten(i, d2)
    /\ \A i \in DOMAIN gifts : GiftScaleWritten(i, d1) = GiftScaleWritten(i, d2)
    /\ \A i \in DOMAIN cards : CardScaleWritten(i, d1) = CardScaleWritten(i, d2)

\* C18: no frame, focus update or camera update changes an entity's formation
\* or chaos position, and the focus update leaves the camera position it reads
\* unchanged: the frames only move currentPos and the rendered transforms.
C18_LayoutImmutable ==
  [][/\ foliageData' = foliageData
     /\ ornData' = ornData
     /\ giftData' = giftData
     /\ cardData' = cardData
     /\ (IsFrame /\ ~isTracking) => camera'.position = camera.position]_vars

\* frames have moved a focused card and an ornament away from their formation positions
C18_Witness ==
  /\ frames = MaxFrames
  /\ isFocusedOf \in Cards
  /\ cards[isFocusedOf].currentPos # cardData[isFocusedOf].target
  /\ \E i \in Ornaments : ornaments[i].currentPos # ornData[i].target

\* ParticleText instance k exists and has its geometry and its uniforms
TextBuilt(k) == k \in DOMAIN texts /\ texts[k].geometry /\ texts[k].uniforms.present

\* ParticleText instance k has neither geometry nor uniforms
TextAbsent(k) == k \notin DOMAIN texts \/ (~texts[k].geometry /\ ~texts[k].uniforms.present)

\* C19: while the font has not loaded, ParticleText has no geometry and no
\* uniforms and a frame changes nothing of it; once the font is there and the
\* boundary has retried, both instances have their geometry and uniforms, and
\* the frames update them.
C19_TextWaitsForFont ==
  /\ [](font = "pending" => \A k \in Texts : TextAbsent(k))
  /\ [](mounted => \A k \in Texts : TextBuilt(k))
  /\ [][(IsFrame /\ font = "pending") => texts' = texts]_vars

\* frames ran while the font was pending, and the text was built afterwards
C19_Witness ==
  /\ mounted
  /\ frames > 0
  /\ elapsed > 0
  /\ \A k \in Texts : TextBuilt(k) /\ texts[k].uniforms.uTime = 0

\* the frame moved `new` from `old` towards `dest`: it lies between them, and it
\* left `old` if `old` was a tenth or more away from `dest`
Towards(old, new, dest) ==
  /\ VBetween(old, new, dest)
  /\ (\E k \in 1..3 : dest[k] - old[k] >= 1000 \/ old[k] - dest[k] >= 1000) => new # old

\* C20: in a frame (of at most 13/60 s here) every non-focused ornament, gift
\* box and card heads for its chaos position exactly when the progress the frame
\* reads is above 0.5, and for its formation position otherwise, 0.5 included,
\* whatever it headed for in the frame before.
C20_HardThreshold ==
  [][(IsFrame /\ lastDelta' > 0) =>
       LET chaosBound == 2 * progress > ProgressScale
       IN  /\ \A i \in DOMAIN ornaments :
                Towards(ornaments[i].currentPos, ornaments'[i].currentPos,
                        IF chaosBound THEN ornData[i].chaos ELSE ornData[i].target)
           /\ \A i \in DOMAIN gifts :
                build = "unnamed" =>
                  Towards(gifts[i].pos, gifts'[i].pos,
                          IF chaosBound THEN giftData[i].chaos ELSE giftData[i].target)
           /\ \A i \in DOMAIN cards :
                isFocusedOf # i =>
                  Towards(cards[i].currentPos, cards'[i].currentPos,
                          IF chaosBound THEN cardData[i].chaos ELSE cardData[i].target)]_vars

\* a frame read progress = 0.5 exactly, right after a frame that had read 0.88
\* and sent the ornaments towards their chaos positions
C20_Witness ==
  /\ frames = 2
  /\ lastDelta > 0
  /\ consumed = ProgressScale \div 2
  /\ \E i \in Ornaments : ornaments[i].currentPos # ornData[i].target

\* |a - b| <= bound on every axis
VWithin(a, b, bound) ==
  \A k \in 1..3 : a[k] - b[k] <= bound /\ b[k] - a[k] <= bound

\* C21: the float added above progress 0.8 is bounded and does not accumulate:
\* after every frame an ornament's rendered position is within 0.01 per axis of
\* its currentPos and a gift box's within 0.005 of its pos, and currentPos (pos)
\* is the plain lerp of its previous value towards the destination, whether or
\* not the frame floated.
C21_FloatBounded ==
  /\ [](frames > 0 =>
          /\ \A i \in DOMAIN ornaments :
               VWithin(ornaments[i].position, ornaments[i].currentPos, 100)
          /\ \A i \in DOMAIN gifts : VWithin(gifts[i].position, gifts[i].pos, 50))
  /\ [][IsFrame =>
          /\ \A i \in DOMAIN ornaments :
               ornaments'[i].currentPos =
                 VLerp(ornaments[i].currentPos, OrnamentDest(i), lastDelta' * 3, DeltaDen)
          /\ \A i \in DOMAIN gifts :
               build = "unnamed" =>
                 gifts'[i].pos = VLerp(gifts[i].pos, GiftDest(i), lastDelta' * 3, DeltaDen)]_vars

\* a frame read a progress above 0.8 and floated an ornament and a gift box
C21_Witness ==
  /\ frames > 0
  /\ build = "unnamed"
  /\ FullyScattered(consumed)
  /\ \E i \in DOMAIN ornaments : ornaments[i].position # ornaments[i].currentPos
  /\ \E i \in DOMAIN gifts : gifts[i].position # gifts[i].pos

\* the orientation a gift box is to settle in below progress 0.8
GiftTargetRot(i) == IF Scattered(progress) THEN giftData[i].chaosRot ELSE giftData[i].rot

\* an ornament's data has no rotation of its own: the only fixed orientation it
\* has is the one <Instance /> is created with
OrnamentTargetRot == <<0, 0>>

\* the gift boxes' part of C22: below 0.8 every axis of the rotation moves
\* towards the target rotation of the destination
GiftsTurnToTarget ==
  \A i \in DOMAIN gifts :
    build = "unnamed" => VBetween(gifts[i].rotation, gifts'[i].rotation, GiftTargetRot(i))

StepWithin(old, new, dest, tNum, tDen) ==
  /\ VBetween(old, new, dest)
  /\ \A k \in 1..3 :
       LET step == IF new[k] >= old[k] THEN new[k] - old[k] ELSE old[k] - new[k]
           dist == IF dest[k] >= old[k] THEN dest[k] - old[k] ELSE old[k] - dest[k]
       IN  2 * step * tDen <= 2 * dist * tNum + tDen

C24_OnlyTwoUniforms ==
  [][IsFrame =>
       /\ foliageData' = foliageData
       /\ foliage'.uSize = foliage.uSize
       /\ foliage'.uTime = elapsed'
       /\ DOMAIN texts' = DOMAIN texts
       /\ \A k \in DOMAIN texts :
            /\ texts'[k].geometry = texts[k].geometry
            /\ texts'[k].meshRef = texts[k].meshRef
            /\ texts'[k].uniforms.present = texts[k].uniforms.present
            /\ texts'[k].uniforms.uTime = elapsed']_vars

\* frames have moved both uniforms of the foliage and of the texts, and the
\* buffers are the ones the foliage was constructed with
C24_Witness ==
  /\ frames = MaxFrames
  /\ foliage.uTime > 0
  /\ foliage.uProgress > 0
  /\ \A k \in Texts : TextBuilt(k) /\ texts[k].uniforms.uProgress > 0
  /\ foliageData = TreeData(build, 1, Cards).foliageData

\* C25: a card is focused only once the cards are out: in every state where a
\* card is focused (the state a click has just been accepted in included),
\* progress > 0.5.
C25_FocusOnlyWhenOut ==
  (focusedIndex \in Cards \/ isFocusedOf \in Cards) => Scattered(progress)

\* C26: as long as the driver has never been active, after any number of frames
\* with any delta >= 0 progress is exactly 0 and the currentPos of every
\* ornament, gift box and card equals its formation position.  (Stated under
\* SpecCamera, where the hand is never opened.)
C26_FormationFixedPoint ==
  /\ ~storeHandOpen /\ ~isHandOpen
  /\ progress = 0
  /\ \A i \in DOMAIN ornaments : ornaments[i].currentPos = ornData[i].target
  /\ \A i \in DOMAIN gifts : gifts[i].pos = giftData[i].target
  /\ \A i \in DOMAIN cards : cards[i].currentPos = cardData[i].target

\* frames have run, one of them after a stall, and the camera has been moved
C26_Witness ==
  /\ frames = MaxFrames
  /\ stalls > 0
  /\ camera.position # <<0, 20000, 140000>>
  /\ \A i \in Ornaments : ornaments[i].position = ornData[i].target /\ ornaments[i].rotation[1] > 0
  /\ \A i \in Cards : cards[i].position = cardData[i].target

InUnitRange(p) == p >= 0 /\ p <= ProgressScale

\* C27: in every frame, whatever its delta, the uProgress uniform of the
\* foliage and of each text moves by 0.1 of its distance to the progress the
\* frame reads, so it ends between its previous value and that progress; and
\* in a run where progress never leaves [0, 1], no uProgress leaves [0, 1].
C27_UniformFollowsProgress ==
  /\ [][IsFrame =>
          /\ foliage'.uProgress = lerp(foliage.uProgress, progress, 1, 10)
          /\ Between(foliage.uProgress, foliage'.uProgress, progress)
          /\ \A k \in DOMAIN texts :
               /\ texts'[k].uniforms.uProgress = lerp(texts[k].uniforms.uProgress, progress, 1, 10)
               /\ Between(texts[k].uniforms.uProgress, texts'[k].uniforms.uProgress, progress)]_vars
  /\ ([]InUnitRange(progress) =>
        [](InUnitRange(foliage.uProgress) /\
           \A k \in DOMAIN texts : InUnitRange(texts[k].uniforms.uProgress)))

\* the uniform has been moved by a frame that repeated a timestamp, and is
\* strictly between 0 and the progress
C27_Witness ==
  /\ frames = MaxFrames
  /\ lastDelta = 0
  /\ InUnitRange(progress)
  /\ foliage.uProgress > 0
  /\ foliage.uProgress < progress

\* C28: a frame without tracking sets the mapper's currentPos to the camera's
\* position, and the first tracked frame after frames without tracking writes
\* to the camera the interpolation from the pose the manual controller left the
\* camera in towards the gesture target.
C28_ResumeFromCameraPose ==
  /\ [][(IsFrame /\ ~isTracking) => gcCurrentPos' = camera'.position]_vars
  /\ [][(IsFrame /\ isTracking /\ frames > 0 /\ ~lastTracking) =>
          camera'.position = VLerp(camera.position, GestureTarget(hand), lastDelta' * 3,
                                   DeltaDen)]_vars

\* C29: with the driver held in gather and frames that keep coming with
\* 0 < rate * delta < 1, progress eventually is 0.5 or less and stays so (every
\* non-focused entity then heads for its formation position for good); with the
\* driver held in scatter, progress eventually is above 0.5 and stays so.
C29_ProgressSettles ==
  /\ (~isHandOpen) ~> [](progress + progress <= ProgressScale)
  /\ isHandOpen ~> [](progress + progress > ProgressScale)

\* the driver is gather, progress has come down from 1 to below 0.5, and an
\* ornament that had set off for its chaos position is on its way back
C29_Witness ==
  /\ ~isHandOpen
  /\ ~Scattered(progress)
  /\ progress > 0
  /\ \E i \in Ornaments : ornaments[i].currentPos # ornData[i].target

\* C30: however a click interleaves with a driver change to gather (a click
\* handled by the handler of the render in which the driver was still active
\* included), the effect of the gather render leaves the focus state none, and
\* it is none in every state where the gather driver has been rendered and its
\* effect has run.
C30_RaceEndsUnfocused ==
  /\ [][(effectPending /\ ~isHandOpen /\ ~effectPending') => focusedIndex' = NoFocus]_vars
  /\ [](( ~storeHandOpen /\ ~isHandOpen /\ ~effectPending) => focusedIndex = NoFocus)

\* the store is gather, its render has committed a focus (set by a click that
\* the handler of the scatter render accepted) together with the closed hand,
\* and the effect has cleared it
C30_Witness ==
  /\ ~storeHandOpen
  /\ ~isHandOpen
  /\ ~effectPending
  /\ clicked = NoFocus
  /\ isFocusedOf \in Cards
  /\ focusedIndex = NoFocus

====
